---- MODULE Spec2Model ----
(***************************************************************************)
(* A model of generate_sitemap.py: the URL pool (data/url_pool.json), the  *)
(* used-set (data/used_urls.json), the rotation selector                   *)
(* pick_rotating_urls, the discovery passes and the build step of main().  *)
(*                                                                         *)
(* A locator is a normalised product URL                                   *)
(* https://www.redbubble.com/i/<slug>/<n>; it is modelled by the number n. *)
(***************************************************************************)
EXTENDS Integers, Sequences, FiniteSets, TLC

\* ------------------------------------------------------------------ bounds
NumLoc == 2        \* distinct locators that exist on the catalog site
MaxPool == 3       \* largest pool handed to pick_rotating_urls in a selector trace
MaxTarget == 3    \* largest --target / target argument tried
MaxCalls == 4      \* calls of pick_rotating_urls in one selector trace
MaxClock == 2      \* last tick of the clock
MaxRunClock == 1   \* last tick of the clock between full runs of main()
TicksPerDay == 2   \* clock ticks in one calendar day
MaxPerRun == 2     \* largest --pw-per-run tried
MaxIn == 2         \* longest list handed to pool_add_urls directly, and calls in a merge trace

Locs == 1..NumLoc

\* the locators of the pools of a selector trace
PickLocs == 1..MaxPool
None == 0

\* no timestamp (Python's None where a time is expected)
NoTime == 0 - 1

\* ----------------------------------------------------------------- helpers
SeqToSet(s) == {s[i] : i \in DOMAIN s}

Min(a, b) == IF a < b THEN a ELSE b

NoDup(s) == \A i, j \in DOMAIN s : i # j => s[i] # s[j]

\* the list 1, 2, ..., n
Iota(n) == [i \in 1..n |-> i]

\* --------------------------------------------------------------- the clock
\* date.today(): the calendar day of a clock tick, counted from the first day
DayOf(t) == t \div TicksPerDay

\* the time of day of a clock tick
TimeOfDay(t) == t % TicksPerDay

\* a seed that also reads the time of day (the bug the day seed rules out)
seed_wall_clock(t) == 20261102 + t

\* int(date.today().strftime("%Y%m%d")), the first day being 2026-11-02
seed_of(t) == 20261102 + DayOf(t)

\* random.Random(seed).shuffle(list(range(1, n + 1))) of CPython, for the
\* seeds 20261102 .. 20261110 (rows) and n = 1 .. 7 (columns)
ShuffleTable ==
  << <<<<1>>, <<2,1>>, <<2,1,3>>, <<3,4,2,1>>, <<3,4,2,1,5>>, <<2,6,3,4,1,5>>, <<3,7,6,2,4,1,5>>>>,
     <<<<1>>, <<2,1>>, <<2,3,1>>, <<2,3,4,1>>, <<4,3,5,2,1>>, <<4,3,6,5,2,1>>, <<4,3,7,5,6,2,1>>>>,
     <<<<1>>, <<2,1>>, <<2,1,3>>, <<1,3,4,2>>, <<1,4,5,3,2>>, <<1,4,5,3,2,6>>, <<1,4,5,3,2,7,6>>>>,
     <<<<1>>, <<2,1>>, <<2,3,1>>, <<4,1,3,2>>, <<4,1,3,5,2>>, <<3,4,5,1,6,2>>, <<3,4,5,1,7,6,2>>>>,
     <<<<1>>, <<2,1>>, <<2,1,3>>, <<2,3,4,1>>, <<2,3,4,5,1>>, <<2,3,4,5,1,6>>, <<4,3,5,2,7,1,6>>>>,
     <<<<1>>, <<1,2>>, <<1,2,3>>, <<3,1,2,4>>, <<3,1,2,4,5>>, <<2,3,1,6,4,5>>, <<2,3,1,7,4,6,5>>>>,
     <<<<1>>, <<1,2>>, <<1,3,2>>, <<4,1,2,3>>, <<5,2,1,4,3>>, <<1,6,5,2,4,3>>, <<6,1,5,7,2,4,3>>>>,
     <<<<1>>, <<2,1>>, <<2,3,1>>, <<3,4,1,2>>, <<4,3,5,1,2>>, <<3,5,6,4,1,2>>, <<7,6,5,3,4,1,2>>>>,
     <<<<1>>, <<1,2>>, <<3,1,2>>, <<2,1,4,3>>, <<1,4,5,2,3>>, <<1,5,6,4,2,3>>, <<1,5,7,4,2,6,3>>>> >>

\* rng = random.Random(seed); rng.shuffle(x): the generator permutes the
\* positions of x, the same way for every list of one length and one seed
shuffle(x, seed) ==
  IF Len(x) = 0 THEN << >>
  ELSE LET p == ShuffleTable[seed - 20261102 + 1][Len(x)]
       IN  [i \in 1..Len(x) |-> x[p[i]]]

\* ------------------------------------------------------ rotation selector
\* the selector without the filter on the used-set (a plausible slip)
pick_ignoring_used(all_urls_, used_, target_, seed) ==
  IF all_urls_ = << >> THEN [picked |-> << >>, used |-> used_, did_reset |-> FALSE]
  ELSE
    LET pruned == {u \in used_ : u \in SeqToSet(all_urls_)}
        shuffled == shuffle(all_urls_, seed)
        chosen == SubSeq(shuffled, 1, Min(target_, Len(shuffled)))
    IN  [picked |-> chosen, used |-> pruned \cup SeqToSet(chosen), did_reset |-> FALSE]

\* the selector without the reset of an exhausted used-set (a plausible slip)
pick_without_reset(all_urls_, used_, target_, seed) ==
  IF all_urls_ = << >> THEN [picked |-> << >>, used |-> used_, did_reset |-> FALSE]
  ELSE
    LET pruned == {u \in used_ : u \in SeqToSet(all_urls_)}
        shuffled == shuffle(SelectSeq(all_urls_, LAMBDA u : u \notin pruned), seed)
        chosen == SubSeq(shuffled, 1, Min(target_, Len(shuffled)))
    IN  [picked |-> chosen, used |-> pruned \cup SeqToSet(chosen), did_reset |-> FALSE]

\* the selector whose reset clears the used-set but forgets to refill the
\* available list (a plausible slip)
pick_reset_keeping_available(all_urls_, used_, target_, seed) ==
  IF all_urls_ = << >> THEN [picked |-> << >>, used |-> used_, did_reset |-> FALSE]
  ELSE
    LET pruned == {u \in used_ : u \in SeqToSet(all_urls_)}
        avail0 == SelectSeq(all_urls_, LAMBDA u : u \notin pruned)
        reset == Len(avail0) < target_
        used1 == IF reset THEN {} ELSE pruned
        shuffled == shuffle(avail0, seed)
        chosen == SubSeq(shuffled, 1, Min(target_, Len(shuffled)))
    IN  [picked |-> chosen, used |-> used1 \cup SeqToSet(chosen), did_reset |-> reset]

\* pick_rotating_urls(all_urls, used, target) on the day whose seed is seed
pick_rotating_urls(all_urls_, used_, target_, seed) ==
  IF all_urls_ = << >> THEN [picked |-> << >>, used |-> used_, did_reset |-> FALSE]
  ELSE
    LET all_set == SeqToSet(all_urls_)
        pruned == {u \in used_ : u \in all_set}
        avail0 == SelectSeq(all_urls_, LAMBDA u : u \notin pruned)
        reset == Len(avail0) < target_
        used1 == IF reset THEN {} ELSE pruned
        available == IF reset THEN all_urls_ ELSE avail0
        shuffled == shuffle(available, seed)
        chosen == SubSeq(shuffled, 1, Min(target_, Len(shuffled)))
    IN  [picked |-> chosen, used |-> used1 \cup SeqToSet(chosen), did_reset |-> reset]

\* ------------------------------------------------------- URL normalizer
\* A raw string (a seed line, an href) is modelled by its parts: how it is
\* written (absolute, protocol-relative "//host/...", site-relative "/...",
\* or blank), its host, the shape of its path, the product it names, and
\* whether a query string or fragment follows the path.
Raw(form, host, path, n, extra) ==
  [form |-> form, host |-> host, path |-> path, n |-> n, extra |-> extra]

\* the string of the normalised locator n, "https://www.redbubble.com/i/.../n"
Canon(n) == Raw("abs", "www.redbubble.com", "/i/", n, FALSE)

RawUrls ==
  {Canon(n) : n \in Locs}
  \cup {Raw("path", "", "/i/", 1, TRUE),
        Raw("abs", "example.com", "/i/", 1, FALSE),
        Raw("abs", "www.redbubble.com", "/shop/ap/", 1, FALSE),
        Raw("blank", "", "", 1, FALSE)}

ONLY_I_URLS == TRUE

\* normalize_rb_url(url): the locator, or None
normalize_rb_url(url) ==
  IF url.form = "blank" THEN None
  ELSE
    LET host == IF url.form = "path" THEN "www.redbubble.com" ELSE url.host
    IN  IF host \notin {"www.redbubble.com", "redbubble.com"} THEN None
        ELSE IF url.path = "/i/" THEN url.n
        ELSE IF url.path = "/shop/ap/" THEN
               (IF ONLY_I_URLS THEN None ELSE url.n)
        ELSE None

\* is_i_url(url) of a locator: every locator the normalizer lets through
\* under ONLY_I_URLS has an /i/ path
is_i_url(u) == u \in Locs

\* extract_design_id_from_url(url): the design a product page belongs to;
\* two neighbouring products share one design
extract_design_id_from_url(u) == (u + 1) \div 2

\* -------------------------------------------------------------- pool store
\* data/url_pool.json: "absent", "ok" (parses) or "torn" (cut short by a
\* crash in write_text); urls is the dict in insertion order.
NoPoolFile == [state |-> "absent", urls |-> << >>, updated_at |-> NoTime]

\* load_json(URL_POOL_JSON, default).get("urls"): a missing or unparsable
\* file gives the default
load_urls_map(file) == IF file.state = "ok" THEN file.urls ELSE << >>

Keys(urls_map) == [i \in DOMAIN urls_map |-> urls_map[i].url]

\* load_pool_urls(): list(urls_map.keys())
load_pool_urls(file) == Keys(load_urls_map(file))

Entry(u, now, source) ==
  [url |-> u, first_seen |-> now, last_seen |-> now, source |-> source,
   id |-> extract_design_id_from_url(u)]

\* a merge that counts every accepted input string, new or not
RECURSIVE add_loop_counting_all(_, _, _, _, _)
add_loop_counting_all(urls_map, urls, source, now, added) ==
  IF urls = << >> THEN [urls |-> urls_map, added |-> added]
  ELSE
    LET nu == normalize_rb_url(Head(urls))
    IN  IF nu = None THEN add_loop_counting_all(urls_map, Tail(urls), source, now, added)
        ELSE IF nu \notin SeqToSet(Keys(urls_map)) THEN
          add_loop_counting_all(Append(urls_map, Entry(nu, now, source)), Tail(urls), source, now, added + 1)
        ELSE
          add_loop_counting_all([i \in DOMAIN urls_map |->
                       IF urls_map[i].url = nu
                         THEN [urls_map[i] EXCEPT !.last_seen = now]
                         ELSE urls_map[i]],
                   Tail(urls), source, now, added + 1)

\* a merge that rewrites the whole entry of a locator it sees again
RECURSIVE add_loop_overwriting(_, _, _, _, _)
add_loop_overwriting(urls_map, urls, source, now, added) ==
  IF urls = << >> THEN [urls |-> urls_map, added |-> added]
  ELSE
    LET nu == normalize_rb_url(Head(urls))
    IN  IF nu = None THEN add_loop_overwriting(urls_map, Tail(urls), source, now, added)
        ELSE IF nu \notin SeqToSet(Keys(urls_map)) THEN
          add_loop_overwriting(Append(urls_map, Entry(nu, now, source)), Tail(urls), source, now, added + 1)
        ELSE
          add_loop_overwriting([i \in DOMAIN urls_map |->
                       IF urls_map[i].url = nu THEN Entry(nu, now, source)
                                               ELSE urls_map[i]],
                   Tail(urls), source, now, added)

\* the loop of pool_add_urls over urls, from the map and count so far
RECURSIVE add_loop(_, _, _, _, _)
add_loop(urls_map, urls, source, now, added) ==
  IF urls = << >> THEN [urls |-> urls_map, added |-> added]
  ELSE
    LET nu == normalize_rb_url(Head(urls))
    IN  IF nu = None THEN add_loop(urls_map, Tail(urls), source, now, added)
        ELSE IF nu \notin SeqToSet(Keys(urls_map)) THEN
          add_loop(Append(urls_map, Entry(nu, now, source)), Tail(urls), source, now, added + 1)
        ELSE
          add_loop([i \in DOMAIN urls_map |->
                       IF urls_map[i].url = nu
                         THEN [urls_map[i] EXCEPT !.last_seen = now]
                         ELSE urls_map[i]],
                   Tail(urls), source, now, added)

\* pool_add_urls(urls, source) at time now: the file it saves and the count
\* it returns
pool_add_urls(file, urls, source, now) ==
  LET r == add_loop(load_urls_map(file), urls, source, now, 0)
  IN  [file |-> [state |-> "ok", urls |-> r.urls, updated_at |-> now],
       added |-> r.added]

\* ---------------------------------------------------------- used-set file
\* data/used_urls.json: "absent", "ok" or "torn". save_used_urls writes
\* sorted(used) and load_used_urls reads it back as a set, so the list is
\* modelled by its set. The file's last_reset stamp, which no code reads but
\* to carry it into the next save, is left out.
NoUsedFile == [state |-> "absent", used |-> {}]

\* load_used_urls()
load_used_urls(file) == IF file.state = "ok" THEN file.used ELSE {}

\* save_used_urls(used, last_reset)
save_used_urls(used_) == [state |-> "ok", used |-> used_]

\* ---------------------------------------------------------------- sitemap
\* public/sitemap.xml: the <loc> entries in order; every entry of one file
\* carries the same <lastmod>, the time of the build, which last_build keeps
NoSitemap == [exists |-> FALSE, urls |-> << >>]

\* write_sitemap(urls)
write_sitemap(urls) == [exists |-> TRUE, urls |-> urls]

\* len() of a locator string: "https://www.redbubble.com" + "/i/" + the rest
LocLen(u) == 28 + u

RECURSIVE SumLen(_)
SumLen(urls) == IF urls = << >> THEN 0 ELSE 77 + LocLen(Head(urls)) + SumLen(Tail(urls))

\* OUT_SITEMAP.stat().st_size: 110 bytes of header and footer lines, and per
\* URL the four lines <url>, <loc>, <lastmod>, </url> (77 bytes and the URL)
st_size(sm) == 110 + SumLen(sm.urls)

\* OUT_SITEMAP.exists() and OUT_SITEMAP.stat().st_size > 200
sitemap_kept(sm) == sm.exists /\ st_size(sm) > 200

\* ------------------------------------------------------------ seed import
\* the order-preserving dedupe loop (seen / dedup)
RECURSIVE dedupe(_, _)
dedupe(xs, seen) ==
  IF xs = << >> THEN << >>
  ELSE IF Head(xs) \in seen THEN dedupe(Tail(xs), seen)
  ELSE <<Head(xs)>> \o dedupe(Tail(xs), seen \cup {Head(xs)})

\* [normalize_rb_url(x) for x in raws if it is accepted]
RECURSIVE normalize_all(_)
normalize_all(raws) ==
  IF raws = << >> THEN << >>
  ELSE LET nu == normalize_rb_url(Head(raws))
       IN  (IF nu = None THEN << >> ELSE <<nu>>) \o normalize_all(Tail(raws))

\* load_seed_urls(): the accepted lines of data/seed_urls.txt, deduped
load_seed_urls(lines) == dedupe(normalize_all(lines), {})

\* the locator strings of a list of locators
Strings(locs) == [i \in DOMAIN locs |-> Canon(locs[i])]

\* [extract_design_id_from_url(u) for u in urls], as ids_add takes it in
ids_of(locs) == {extract_design_id_from_url(locs[i]) : i \in DOMAIN locs}

\* ids_add(ids, source): data/design_ids.json gains the ids
ids_add(ids_file, ids) == ids_file \cup ids

\* the sorted list of a set of numbers
RECURSIVE sorted(_)
sorted(S) ==
  IF S = {} THEN << >>
  ELSE LET m == CHOOSE x \in S : \A y \in S : x <= y
       IN  <<m>> \o sorted(S \ {m})

\* load_all_ids(): the ids of data/design_ids.json, sorted
load_all_ids(ids_file) == sorted(ids_file)

\* -------------------------------------------------------- the catalog site
EXPLORE_PAGES_TO_SCAN == 2

\* the hrefs of explore page p of the shop: the products are spread over the
\* pages, each linked site-relative with a query string, the first one
\* twice, next to a link that is no product
ExplorePage(p) ==
  LET on == SelectSeq(Iota(NumLoc), LAMBDA u : ((u - 1) % EXPLORE_PAGES_TO_SCAN) + 1 = p)
      links == [i \in DOMAIN on |-> Raw("path", "", "/i/", on[i], TRUE)]
  IN  <<Raw("abs", "www.redbubble.com", "/people/", 1, TRUE)>> \o links
      \o (IF links = << >> THEN << >> ELSE <<Canon(on[1])>>)

\* extract_urls_from_html(html)
extract_urls_from_html(hrefs) ==
  dedupe(SelectSeq(normalize_all(hrefs), is_i_url), {})

\* the hrefs of the design page /shop/ap/<d>: the products of the design
DesignPage(d) ==
  LET on == SelectSeq(Iota(NumLoc), LAMBDA u : extract_design_id_from_url(u) = d)
  IN  [i \in DOMAIN on |-> Raw("path", "", "/i/", on[i], FALSE)]
      \o <<Raw("abs", "www.redbubble.com", "/shop/ap/", 1, FALSE)>>

\* --------------------------------------------------------------- the state
VARIABLES
  clock,       \* the current clock tick
  all_urls,    \* selector trace: the pool handed to every call
  used,        \* selector trace: the used-set handed to the next call
  target,      \* selector trace: the target of every call
  used0,       \* selector trace: the used-set the trace started from
  calls,       \* selector trace: calls made so far
  last,        \* selector trace: the last call, [given, picked, did_reset]
  offered,     \* selector trace: times each locator was chosen, all calls
  cycle,       \* selector trace: times each locator was offered since the last reset
  log,         \* selector trace: every call made, [day, tod, used, result]
  url_pool,    \* data/url_pool.json
  merge,       \* the last direct call of pool_add_urls: its input and what it returned
  used_urls,   \* data/used_urls.json
  sitemap,     \* public/sitemap.xml
  design_ids,  \* data/design_ids.json: the set of design ids
  pw_id_cursor, \* data/state.json: the cursor into the design ids
  seed_file,   \* data/seed_urls.txt: its lines
  pc,          \* where main() stands: "idle" between runs
  run,         \* main()'s arguments and locals
  rc,          \* how the last run ended: "0", "1", "raised", "killed"
  last_fetch,  \* how the fetch of the step just taken ended ("none": no fetch, or run over)
  last_build   \* retried runs: the last build that wrote the feed: its day, pool and
               \* target, whether it retried the build before it, and the feed it replaced

pickVars == <<all_urls, used, target, used0, calls, last, offered, cycle, log>>

fileVars == <<url_pool, used_urls, sitemap, design_ids, pw_id_cursor, seed_file>>

runVars == <<pc, run, rc>>

obsVars == <<merge, last_fetch, last_build>>

vars == <<clock, pickVars, fileVars, runVars, obsVars>>

\* times u occurs in the sequence s
Count(s, u) == Cardinality({i \in DOMAIN s : s[i] = u})

NoCall == [given |-> {}, picked |-> << >>, did_reset |-> FALSE]

NoMerge == [n |-> 0, len |-> 0, accepted |-> {}, twice |-> FALSE,
            before |-> << >>, added |-> 0]

\* no selector trace is under way
PickAtRest ==
  /\ all_urls = << >> /\ used = {} /\ target = 0 /\ used0 = {} /\ calls = 0
  /\ last = NoCall /\ offered = [u \in PickLocs |-> 0] /\ cycle = [u \in PickLocs |-> 0]
  /\ log = {}

NoRun == [build |-> FALSE, req |-> FALSE, pw |-> FALSE, target |-> 0, per_run |-> 0,
          found |-> << >>, page |-> 0, batch |-> << >>, bi |-> 0, new_cursor |-> 0]

NoBuild == [day |-> NoTime, pool |-> << >>, target |-> 0, retry |-> FALSE,
            before |-> << >>]

\* the seed files tried: none, and one naming the first locator twice (two
\* spellings) between a blank line and a foreign URL
SeedFiles ==
  {<< >>,
   <<Raw("path", "", "/i/", 1, TRUE), Raw("blank", "", "", 1, FALSE), Canon(1),
     Raw("abs", "example.com", "/i/", 1, FALSE)>>}

\* the files as a fresh checkout has them, but for the seed file
FilesAtRest ==
  /\ url_pool = NoPoolFile /\ used_urls = NoUsedFile /\ sitemap = NoSitemap
  /\ design_ids = {} /\ pw_id_cursor = 0 /\ seed_file = << >>

RunAtRest == pc = "idle" /\ run = NoRun /\ rc = "none"

ObsAtRest == merge = NoMerge /\ last_fetch = "none" /\ last_build = NoBuild

\* --------------------------------------------- selector trace (SpecPick)
\* A fixed pool and target, any used-set to start from (locators beyond the
\* pool are stale entries), then repeated calls threading the used-set.
InitPick ==
  /\ clock = 0
  /\ \E n \in 0..MaxPool : all_urls = Iota(n)
  /\ used0 \in SUBSET PickLocs
  /\ used = used0
  /\ target \in 0..MaxTarget
  /\ calls = 0
  /\ last = NoCall
  /\ offered = [u \in PickLocs |-> 0]
  /\ cycle = [u \in PickLocs |-> IF u \in used0 /\ u \in SeqToSet(all_urls) THEN 1 ELSE 0]
  /\ log = {}
  /\ FilesAtRest /\ RunAtRest /\ ObsAtRest

\* one call picked, used, did_reset = pick_rotating_urls(pool, used, target)
PickCall ==
  /\ calls < MaxCalls
  /\ LET r == pick_rotating_urls(all_urls, used, target, seed_of(clock))
     IN  /\ used' = r.used
         /\ last' = [given |-> used, picked |-> r.picked, did_reset |-> r.did_reset]
         /\ offered' = [u \in PickLocs |-> offered[u] + Count(r.picked, u)]
         /\ cycle' = [u \in PickLocs |->
                        (IF r.did_reset THEN 0 ELSE cycle[u]) + Count(r.picked, u)]
         /\ log' = log \cup {[day |-> DayOf(clock), tod |-> TimeOfDay(clock),
                              used |-> used, result |-> r]}
  /\ calls' = calls + 1
  /\ UNCHANGED <<clock, all_urls, target, used0, fileVars, runVars, obsVars>>

\* time passes
Tick ==
  /\ pc = "idle"
  /\ clock < MaxClock
  /\ clock' = clock + 1
  /\ UNCHANGED <<pickVars, fileVars, runVars, obsVars>>

NextPick == PickCall \/ Tick

SpecPick == InitPick /\ [][NextPick]_vars

\* ------------------------------------------------ merge trace (SpecMerge)
\* pool_add_urls called directly, with any list of raw strings up to MaxIn
\* long, on the pool the earlier calls left.
RawLists == UNION {[1..k -> RawUrls] : k \in 0..MaxIn}

\* the labels main() and the playwright pass merge under
Sources == {"seed_urls", "req_discovery", "pw_from_shop_ap"}

InitMerge ==
  /\ clock = 0
  /\ PickAtRest /\ FilesAtRest /\ RunAtRest /\ ObsAtRest

\* the locators a list of raw strings is accepted as
Accepted(urls) == {normalize_rb_url(urls[i]) : i \in DOMAIN urls} \ {None}

\* the list names one locator by two different strings
NamedTwice(urls) ==
  \E i, j \in DOMAIN urls :
     /\ urls[i] # urls[j]
     /\ normalize_rb_url(urls[i]) # None
     /\ normalize_rb_url(urls[i]) = normalize_rb_url(urls[j])

\* one call of pool_add_urls, later than the call before it
MergeCall ==
  /\ merge.n < MaxIn
  /\ clock < MaxClock
  /\ clock' = clock + 1
  /\ \E urls \in RawLists, source \in Sources :
       LET r == pool_add_urls(url_pool, urls, source, clock')
       IN  /\ url_pool' = r.file
           /\ merge' = [n |-> merge.n + 1, len |-> Len(urls),
                        accepted |-> Accepted(urls), twice |-> NamedTwice(urls),
                        before |-> load_pool_urls(url_pool), added |-> r.added]
  /\ UNCHANGED <<pickVars, used_urls, sitemap, design_ids, pw_id_cursor, seed_file,
                 runVars, last_fetch, last_build>>

NextMerge == MergeCall

SpecMerge == InitMerge /\ [][NextMerge]_vars

\* ------------------------------------------------------- runs of main()
\* Where main() goes after the seed import, after the requests pass and after
\* the playwright pass; "idle" is the final return 0 of a run without build.
AfterPw(a) == IF a.build THEN "build" ELSE "idle"

AfterReq(a) == IF a.pw THEN "pw_begin" ELSE AfterPw(a)

AfterSeed(a) == IF a.req THEN "req" ELSE AfterReq(a)

\* the return code once main() is at pc_
RcAt(pc_) == IF pc_ = "idle" THEN "0" ELSE "running"

\* the outcome of the step's fetch, kept while the run goes on
FetchAt(pc_, outcome) == IF pc_ = "idle" THEN "none" ELSE outcome

\* main()'s locals at pc_: gone once the run is over
LocalsAt(pc_, locals) == IF pc_ = "idle" THEN NoRun ELSE locals

Init ==
  /\ clock = 0
  /\ PickAtRest /\ RunAtRest /\ ObsAtRest
  /\ url_pool = NoPoolFile /\ used_urls = NoUsedFile /\ sitemap = NoSitemap
  /\ design_ids = {} /\ pw_id_cursor = 0
  /\ seed_file \in SeedFiles

\* main() from its start to the first fetch: the arguments, the seed import
\* and the design ids derived from the pool; Flags are the combinations of
\* --build, --discover-requests, --discover-playwright tried
StartStep(Flags) ==
  /\ pc = "idle"
  /\ \E flags \in Flags :
     LET build == flags[1]
         req == flags[2]
         pw == flags[3]
         run_build == build \/ (~build /\ ~req /\ ~pw) IN
     \E tgt \in (IF run_build THEN 0..MaxTarget ELSE {0}),
        per_run \in (IF pw THEN 1..MaxPerRun ELSE {0}) :
       LET seed_urls == load_seed_urls(seed_file)
           m == pool_add_urls(url_pool, Strings(seed_urls), "seed_urls", clock)
           pool1 == IF seed_urls # << >> THEN m.file ELSE url_pool
           ids1 == IF seed_urls # << >> THEN ids_add(design_ids, ids_of(seed_urls))
                                        ELSE design_ids
           a == [NoRun EXCEPT !.build = run_build, !.req = req, !.pw = pw,
                              !.target = tgt, !.per_run = per_run, !.page = 1]
       IN  /\ url_pool' = pool1
           /\ design_ids' = ids_add(ids1, ids_of(load_pool_urls(pool1)))
           /\ pc' = AfterSeed(a)
           /\ run' = LocalsAt(pc', a)
           /\ rc' = RcAt(pc')
  /\ last_fetch' = "none"
  /\ UNCHANGED <<clock, pickVars, used_urls, sitemap, pw_id_cursor, seed_file,
                 merge, last_build>>

\* discover_with_requests: the fetch of one explore page; the fetch that ends
\* the loop also returns to main(), which merges what was found
ReqFetch ==
  /\ pc = "req"
  /\ \E outcome \in {"ok", "empty", "blocked"} :
       LET p == run.page
           urls == IF outcome = "ok" THEN extract_urls_from_html(ExplorePage(p))
                                     ELSE << >>
           stop == outcome = "blocked" \/ urls = << >>
           found == IF stop THEN run.found ELSE run.found \o urls
           over == stop \/ p = EXPLORE_PAGES_TO_SCAN
           m == pool_add_urls(url_pool, Strings(found), "req_discovery", clock)
           merged == over /\ found # << >>
       IN  /\ pc' = IF over THEN AfterReq(run) ELSE "req"
           /\ last_fetch' = FetchAt(pc', outcome)
           /\ run' = LocalsAt(pc', [run EXCEPT !.found = found,
                                               !.page = IF over THEN p ELSE p + 1])
           /\ rc' = RcAt(pc')
           /\ url_pool' = IF merged THEN m.file ELSE url_pool
           /\ design_ids' = IF merged THEN ids_add(design_ids, ids_of(found)) ELSE design_ids
  /\ UNCHANGED <<clock, pickVars, used_urls, sitemap, pw_id_cursor, seed_file,
                 merge, last_build>>

\* discover_with_playwright up to the first page visit: the batch of design
\* ids from the cursor on
PwBegin ==
  /\ pc = "pw_begin"
  /\ LET all_ids == load_all_ids(design_ids)
         n == Len(all_ids)
         batch == [i \in 1..run.per_run |-> all_ids[((pw_id_cursor + i - 1) % n) + 1]]
     IN  IF all_ids = << >>
           THEN /\ pc' = AfterPw(run)
                /\ run' = LocalsAt(pc', run)
           ELSE /\ pc' = "pw"
                /\ run' = [run EXCEPT !.batch = batch, !.bi = 1,
                                      !.new_cursor = (pw_id_cursor + Len(batch)) % n]
  /\ rc' = RcAt(pc')
  /\ last_fetch' = "none"
  /\ UNCHANGED <<clock, pickVars, fileVars, merge, last_build>>

\* pw_collect_i_urls_for_design on a page that loaded
pw_collect(hrefs) ==
  dedupe(SelectSeq(normalize_all(SelectSeq(hrefs, LAMBDA h : h.path = "/i/")), is_i_url), {})

\* one iteration of the loop over the batch: the visit of one design page and
\* the merge of its links; page.goto may time out, which raises
PwVisit ==
  /\ pc = "pw"
  /\ \E outcome \in {"ok", "blocked", "timeout"} :
       LET did == run.batch[run.bi]
           urls == IF outcome = "ok" THEN pw_collect(DesignPage(did)) ELSE << >>
           m == pool_add_urls(url_pool, Strings(urls), "pw_from_shop_ap", clock)
           over == run.bi = Len(run.batch)
       IN  /\ IF outcome = "timeout"
                THEN /\ pc' = "idle"
                     /\ rc' = "raised"
                     /\ run' = NoRun
                     /\ UNCHANGED <<url_pool, pw_id_cursor>>
                ELSE /\ url_pool' = IF urls # << >> THEN m.file ELSE url_pool
                     /\ pw_id_cursor' = IF over THEN run.new_cursor ELSE pw_id_cursor
                     /\ pc' = IF over THEN AfterPw(run) ELSE "pw"
                     /\ run' = LocalsAt(pc', [run EXCEPT !.bi = IF over THEN @ ELSE @ + 1])
                     /\ rc' = RcAt(pc')
           /\ last_fetch' = FetchAt(pc', outcome)
  /\ UNCHANGED <<clock, pickVars, used_urls, sitemap, design_ids, seed_file,
                 merge, last_build>>

\* step 3 of main(): build the sitemap; record tells whether last_build
\* takes note of it
BuildStep(record) ==
  /\ pc = "build"
  /\ LET pool == SelectSeq(load_pool_urls(url_pool), is_i_url)
         used_ == load_used_urls(used_urls)
         effective_target == Min(run.target, Len(pool))
         r == pick_rotating_urls(pool, used_, effective_target, seed_of(clock))
     IN  IF pool = << >>
           THEN /\ rc' = IF sitemap_kept(sitemap) THEN "0" ELSE "1"
                /\ UNCHANGED <<sitemap, used_urls, last_build>>
           ELSE /\ sitemap' = write_sitemap(r.picked)
                /\ used_urls' = save_used_urls(r.used)
                /\ rc' = "0"
                /\ last_build' = IF record
                                   THEN [day |-> DayOf(clock), pool |-> pool,
                                         target |-> run.target,
                                         retry |-> /\ last_build.day = DayOf(clock)
                                                   /\ last_build.pool = pool
                                                   /\ last_build.target = run.target,
                                         before |-> sitemap.urls]
                                   ELSE last_build
  /\ pc' = "idle"
  /\ run' = NoRun
  /\ last_fetch' = "none"
  /\ UNCHANGED <<clock, pickVars, url_pool, design_ids, pw_id_cursor, seed_file,
                 merge>>

Start == StartStep(BOOLEAN \X BOOLEAN \X BOOLEAN)

Build == BuildStep(FALSE)

\* time passes between two runs
RunTick == clock < MaxRunClock /\ Tick

Next == Start \/ ReqFetch \/ PwBegin \/ PwVisit \/ Build \/ RunTick

Spec == Init /\ [][Next]_vars

\* ------------------------------------------------ retried runs (SpecRetry)
\* Build runs only (--build, or no flag at all), one after the other, on a
\* pool that a seed import left and that no discovery changes; each build is
\* noted in last_build.
InitRetry ==
  /\ clock = 0
  /\ PickAtRest /\ RunAtRest /\ ObsAtRest
  /\ \E n \in 1..NumLoc :
       /\ url_pool = pool_add_urls(NoPoolFile, Strings(Iota(n)), "seed_urls", 0).file
       /\ design_ids = ids_of(Iota(n))
  /\ used_urls = NoUsedFile /\ sitemap = NoSitemap
  /\ pw_id_cursor = 0 /\ seed_file = << >>

StartBuild == StartStep({<<TRUE, FALSE, FALSE>>, <<FALSE, FALSE, FALSE>>})

BuildNoted == BuildStep(TRUE)

NextRetry == StartBuild \/ BuildNoted \/ Tick

SpecRetry == InitRetry /\ [][NextRetry]_vars

\* ---------------------------------------------- killed runs (SpecCrash)
\* save_json is path.write_text: the file is truncated, then written. A
\* process killed in between leaves a file cut short, which load_json cannot
\* parse.
TornPoolFile == [state |-> "torn", urls |-> << >>, updated_at |-> NoTime]

TornUsedFile == [state |-> "torn", used |-> {}]

\* a run killed inside the save_json of the seed import's pool_add_urls
CrashInSeedImport ==
  /\ pc = "idle"
  /\ load_seed_urls(seed_file) # << >>
  /\ url_pool' = TornPoolFile
  /\ rc' = "killed"
  /\ UNCHANGED <<clock, pickVars, used_urls, sitemap, design_ids, pw_id_cursor,
                 seed_file, pc, run, obsVars>>

\* a build killed inside save_used_urls, after write_sitemap
CrashInSaveUsed ==
  /\ pc = "build"
  /\ LET pool == SelectSeq(load_pool_urls(url_pool), is_i_url)
         r == pick_rotating_urls(pool, load_used_urls(used_urls),
                                 Min(run.target, Len(pool)), seed_of(clock))
     IN  /\ pool # << >>
         /\ sitemap' = write_sitemap(r.picked)
  /\ used_urls' = TornUsedFile
  /\ pc' = "idle"
  /\ run' = NoRun
  /\ rc' = "killed"
  /\ last_fetch' = "none"
  /\ UNCHANGED <<clock, pickVars, url_pool, design_ids, pw_id_cursor, seed_file,
                 merge, last_build>>

NextCrash == Next \/ CrashInSeedImport \/ CrashInSaveUsed

SpecCrash == Init /\ [][NextCrash]_vars

\* ================================================= claims on SpecPick
PoolSet == SeqToSet(all_urls)

\* C1: starting from an empty used-set, with a fixed pool of N locators and a
\* fixed target t >= 1, after ceil(N/t) calls every locator of the pool has
\* been chosen at least once, and no locator is chosen a second time before
\* every locator of the pool has been chosen once.
C1_Exhaustion ==
  (used0 = {} /\ target >= 1 /\ all_urls # << >>) =>
     /\ (calls * target >= Len(all_urls) => \A u \in PoolSet : offered[u] >= 1)
     /\ ((\E u \in PoolSet : offered[u] >= 2) => \A u \in PoolSet : offered[u] >= 1)

\* C3: the chosen sequence holds no locator twice; a call that does not reset
\* chooses nothing of the used-set it was given; so between two resets every
\* pool locator is offered at most once.
C3_NoRepeatInCycle ==
  /\ NoDup(last.picked)
  /\ (~last.did_reset => SeqToSet(last.picked) \cap last.given = {})
  /\ \A u \in PickLocs : cycle[u] <= 1

\* C3 witness: a later call that did not reset, given a non-empty used-set,
\* and chose something
C3_Witness ==
  /\ calls >= 2
  /\ ~last.did_reset
  /\ last.given # {}
  /\ last.picked # << >>

\* C4: two calls on the same calendar day with the same pool, target and
\* used-set return the same chosen sequence, the same new used-set and the
\* same did_reset, whatever the time of day.
C4_DayDeterminism ==
  \A a, b \in log : (a.day = b.day /\ a.used = b.used) => a.result = b.result

\* C4 witness: two such calls at different times of one day, choosing two or
\* more locators
C4_Witness ==
  \E a, b \in log :
     /\ a.day = b.day /\ a.used = b.used /\ a.tod # b.tod
     /\ Len(a.result.picked) >= 2

\* C11: every call returns exactly min(target, pool size) locators, all of
\* them members of the pool; a target larger than a non-empty pool returns the
\* whole pool; an empty pool returns an empty selection with did_reset false.
C11_SelectionSize ==
  calls >= 1 =>
     /\ Len(last.picked) = Min(target, Len(all_urls))
     /\ SeqToSet(last.picked) \subseteq PoolSet
     /\ (target > Len(all_urls) => SeqToSet(last.picked) = PoolSet)
     /\ (all_urls = << >> => last.picked = << >> /\ ~last.did_reset)

\* C11 witness: a call with a target larger than a pool of two or more
\* locators, given a non-empty used-set, returned the whole pool
C11_Witness ==
  /\ calls >= 1
  /\ Len(all_urls) >= 2
  /\ target > Len(all_urls)
  /\ last.given # {}
  /\ Len(last.picked) = Len(all_urls)

\* ================================================ claims on SpecMerge
\* C6: pool_add_urls returns k and the pool grows by exactly k, k being the
\* number of distinct accepted locators of the input that the pool did not
\* hold; an empty input returns 0 and leaves the pool's locators as they were.
C6_MergeCounts ==
  merge.n > 0 =>
    LET k == Cardinality(merge.accepted \ SeqToSet(merge.before))
        after == load_pool_urls(url_pool)
    IN  /\ merge.added = k
        /\ Len(after) = Len(merge.before) + k
        /\ NoDup(after)
        /\ SeqToSet(after) = SeqToSet(merge.before) \cup merge.accepted
        /\ (merge.len = 0 => merge.added = 0 /\ after = merge.before)

\* C6 witness: the input holds nothing but one new locator, written two
\* ways, and the call on a non-empty pool counted it once
C6_Witness ==
  /\ merge.len = 2
  /\ merge.twice
  /\ merge.accepted \cap SeqToSet(merge.before) = {}
  /\ merge.before # << >>
  /\ merge.added = 1

\* ===================================================== claims on Spec
\* what load_pool_urls() returns now: the locators of the pool
PoolNow == load_pool_urls(url_pool)

\* C2: a run never turns a non-empty published feed into an empty one,
\* whatever discovery finds; and a build on a non-empty pool emits
\* min(target, pool size) locators.
C2_NonRegression ==
  [][ /\ (sitemap_kept(sitemap) => sitemap_kept(sitemap'))
      /\ ((pc = "build" /\ pc' = "idle" /\ PoolNow # << >>) =>
             /\ sitemap'.exists
             /\ Len(sitemap'.urls) = Min(run.target, Len(PoolNow))) ]_vars

\* C7: every entry of the persisted pool stays, at its place, in every step of
\* every run; a step changes nothing of an entry but its last_seen, which it
\* sets to the time of the merge.
C7_PoolOnlyGrows ==
  [][ LET old == load_urls_map(url_pool)
          new == load_urls_map(url_pool')
      IN  /\ Len(new) >= Len(old)
          /\ \A i \in DOMAIN old :
               \/ new[i] = old[i]
               \/ new[i] = [old[i] EXCEPT !.last_seen = clock] ]_vars

\* C7 witness: a pool entry seen again later than it was first seen, next to
\* an entry that another source added
C7_Witness ==
  \E i, j \in DOMAIN url_pool.urls :
     /\ url_pool.urls[i].last_seen > url_pool.urls[i].first_seen
     /\ url_pool.urls[i].source = "seed_urls"
     /\ url_pool.urls[j].source # "seed_urls"

\* C8: a run returns 0 exactly when a usable feed exists after it.
C8_RunStatus ==
  (pc = "idle" /\ rc # "none") => (rc = "0" <=> sitemap_kept(sitemap))

\* C9: a blocked or timed-out fetch neither aborts the run nor ends the pass:
\* unless it was the last candidate, the pass goes on to the next one.
C9_FetchContained ==
  [][ (last_fetch' \in {"blocked", "timeout"} \/ rc' = "raised") =>
        /\ rc' # "raised"
        /\ (pc = "req" => (pc' = "req" \/ run.page = EXPLORE_PAGES_TO_SCAN))
        /\ (pc = "pw" => (pc' = "pw" \/ run.bi = Len(run.batch))) ]_vars

C10_CrashSafe ==
  [][ /\ SeqToSet(load_pool_urls(url_pool)) \subseteq SeqToSet(load_pool_urls(url_pool'))
      /\ (used_urls'.state = "torn" => load_used_urls(used_urls) = {}) ]_vars

====
